---- MODULE Spec2Model ----
(***************************************************************************)
(* A model of librustc_codegen_llvm/common.rs: the constant constructors   *)
(* of CodegenCx (ConstMethods), the byte-string cache, the masked shift    *)
(* emitters, Funclet and langcall.                                         *)
(*                                                                         *)
(* Integers of the program are bit vectors: functions from 1..w to {0,1},  *)
(* index 1 the least significant bit, so that u64, i64 and u128 keep their *)
(* widths.  Bit widths, lengths and indices of the model itself are        *)
(* ordinary naturals.                                                      *)
(***************************************************************************)
EXTENDS Naturals, Sequences, FiniteSets

VARIABLES
    pointer_bits,          \* data_layout().pointer_size.bits() of the target
    const_cstr_cache,      \* CodegenCx::const_cstr_cache: content -> global
    globals,               \* the globals defined in the LLVM module, in order
    local_gen_sym_counter, \* CodegenCx::local_gen_sym_counter
    cstr_log,              \* every (content, flag, handle) const_cstr has returned
    lang_items,            \* tcx.lang_items(): item -> DefId, or absent
    diags,                 \* the diagnostics the session has emitted
    funclets,              \* the Funclet objects alive, in creation order
    funclet_pads,          \* the pad each Funclet::new call was given
    status,                \* "running", "panicked" (assert!/bug!) or "fatal"
    pending,               \* the call the caller is about to make, with its arguments
    ret                    \* the last call: its name, arguments and result

vars == <<pointer_bits, const_cstr_cache, globals, local_gen_sym_counter,
          cstr_log, lang_items, diags, funclets, funclet_pads, status, pending, ret>>

(***************************************************************************)
(* Bounds of the model.                                                    *)
(***************************************************************************)
MaxSyms == 3
MaxElts == 2
MaxFunclets == 3
MaxPads == 3
MaxDefIds == 2
MaxLanes == 2

(***************************************************************************)
(* Bit vectors.                                                            *)
(***************************************************************************)
\* 2^n for n in 0..30
Pow2(n) ==
    <<1, 2, 4, 8, 16, 32, 64, 128, 256, 512, 1024, 2048, 4096, 8192, 16384, 32768,
      65536, 131072, 262144, 524288, 1048576, 2097152, 4194304, 8388608, 16777216,
      33554432, 67108864, 134217728, 268435456, 536870912, 1073741824>>[n + 1]

\* log2 of a power of two
Log2(w) == CHOOSE k \in 0..30 : Pow2(k) = w

\* the natural n (below 2^31) as a bit vector of width w
FromNat(n, w) == [i \in 1..w |-> IF i > 31 THEN 0 ELSE (n \div Pow2(i - 1)) % 2]

\* the natural a bit vector of at most 30 significant bits stands for
RECURSIVE SumBits(_, _)
SumBits(b, k) == IF k = 0 THEN 0 ELSE (IF b[k] = 1 THEN Pow2(k - 1) ELSE 0) + SumBits(b, k - 1)

ToNat(b) == SumBits(b, Len(b))

Zeros(w) == [i \in 1..w |-> 0]
Ones(w) == [i \in 1..w |-> 1]
\* the vector of width w whose only set bit is bit k (the number 2^k)
BitAt(k, w) == [i \in 1..w |-> IF i = k + 1 THEN 1 ELSE 0]

\* `as` to a narrower or equal unsigned type; LLVM's trunc
Trunc(b, w) == [i \in 1..w |-> b[i]]
\* `as` to a wider unsigned type; LLVM's zext
ZExt(b, w) == [i \in 1..w |-> IF i <= Len(b) THEN b[i] ELSE 0]
\* LLVM's sext
SExt(b, w) == [i \in 1..w |-> IF i <= Len(b) THEN b[i] ELSE b[Len(b)]]
\* b << k and b >> k within the width of b
ShlBits(b, k) == [i \in 1..Len(b) |-> IF i > k THEN b[i - k] ELSE 0]
LShrBits(b, k) == [i \in 1..Len(b) |-> IF i + k <= Len(b) THEN b[i + k] ELSE 0]
AShrBits(b, k) == [i \in 1..Len(b) |-> IF i + k <= Len(b) THEN b[i + k] ELSE b[Len(b)]]
AndBits(a, b) == [i \in 1..Len(a) |-> IF a[i] = 1 /\ b[i] = 1 THEN 1 ELSE 0]
OrBits(a, b) == [i \in 1..Len(a) |-> IF a[i] = 1 \/ b[i] = 1 THEN 1 ELSE 0]
NotBits(a) == [i \in 1..Len(a) |-> 1 - a[i]]
\* a < b, unsigned, for two vectors of one width
LtBits(a, b) ==
    \E k \in 1..Len(a) : /\ a[k] = 0
                         /\ b[k] = 1
                         /\ \A j \in (k + 1)..Len(a) : a[j] = b[j]

(***************************************************************************)
(* LLVM types and constant values, as far as this file looks at them.      *)
(***************************************************************************)
IntWidths == {8, 16, 32, 64, 128}
PointerWidths == {16, 32, 64}

IntTy(w) == [kind |-> "Integer", width |-> w]
VecTy(e, n) == [kind |-> "Vector", elem |-> e, len |-> n]
DoubleTy == [kind |-> "Double"]
ArrayTy(e, n) == [kind |-> "Array", elem |-> e, len |-> n]
PtrTy(t) == [kind |-> "Pointer", pointee |-> t]
StrTy == [kind |-> "Array", elem |-> IntTy(8), len |-> 0]

type_kind(t) == t.kind
int_width(t) == t.width
element_type(t) == t.elem
vector_length(t) == t.len

None == [vk |-> "None"]
Some(x) == [vk |-> "Some", val |-> x]
\* the call did not return: assert!, assert_eq! or bug! unwound
Panic == [vk |-> "Panic"]
\* the call did not return: the session raised a fatal error
Fatal == [vk |-> "Fatal"]

ConstantInt(t, b) == [vk |-> "ConstantInt", ty |-> t, bits |-> b]
ConstantStruct(elts, packed) == [vk |-> "ConstantStruct", elts |-> elts, packed |-> packed]
ConstantDataArray(bytes) == [vk |-> "ConstantDataArray", bytes |-> bytes]
ConstantVector(t, lanes) == [vk |-> "ConstantVector", ty |-> t, lanes |-> lanes]
UndefValue(t) == [vk |-> "UndefValue", ty |-> t]
GlobalVariable(g) == [vk |-> "GlobalVariable", idx |-> g]
BitCast(v, t) == [vk |-> "BitCast", val |-> v, ty |-> t]

\* LLVMConstInt(t, N, SignExtend): the 64-bit N cut or extended to t's width
LLVMConstInt(t, n, sign_extend) ==
    ConstantInt(t, IF sign_extend THEN SExt(n, int_width(t)) ELSE ZExt(n, int_width(t)))

\* LLVMConstIntOfArbitraryPrecision(t, NumWords, Words): Words[0] holds the
\* least significant 64 bits
LLVMConstIntOfArbitraryPrecision(t, num_words, words) ==
    ConstantInt(t, [i \in 1..int_width(t) |->
                      IF i <= 64 * num_words
                      THEN words[((i - 1) \div 64) + 1][((i - 1) % 64) + 1]
                      ELSE 0])

\* LLVMRustConstInt128Get(CV, sext, *high, *low)
LLVMRustConstInt128Get(v, sext) ==
    IF int_width(v.ty) > 128
    THEN [success |-> FALSE, high |-> Zeros(64), low |-> Zeros(64)]
    ELSE LET ap == IF sext THEN SExt(v.bits, 128) ELSE ZExt(v.bits, 128)
         IN [success |-> TRUE,
             high |-> [i \in 1..64 |-> ap[i + 64]],
             low |-> [i \in 1..64 |-> ap[i]]]

\* LLVMConstStringInContext(C, Str, Length, DontNullTerminate)
LLVMConstStringInContext(bytes, dont_null_terminate) ==
    ConstantDataArray(IF dont_null_terminate THEN bytes ELSE Append(bytes, 0))

\* LLVMConstStructInContext(C, Vals, Count, Packed)
LLVMConstStructInContext(elts, packed) == ConstantStruct(elts, packed)

\* LLVMConstExtractValue(Agg, IdxList, 1) with a 32-bit index
LLVMConstExtractValue(v, idx32) ==
    IF LtBits(idx32, FromNat(Len(v.elts), 32)) THEN v.elts[ToNat(idx32) + 1] ELSE Panic

LLVMIsAConstantInt(v) == v.vk = "ConstantInt"

\* LLVMTypeOf
val_ty(v) ==
    CASE v.vk = "ConstantDataArray" -> ArrayTy(IntTy(8), Len(v.bytes))
      [] v.vk = "ConstantStruct" -> [kind |-> "Struct", packed |-> v.packed]
      [] v.vk = "GlobalVariable" -> [kind |-> "Pointer"]
      [] OTHER -> v.ty

(***************************************************************************)
(* ConstMethods for CodegenCx: the constructors that touch no state.       *)
(***************************************************************************)
const_undef(t) == UndefValue(t)

const_int(t, i) == LLVMConstInt(t, i, TRUE)

const_uint(t, i) == LLVMConstInt(t, i, FALSE)

const_uint_big(t, u) ==
    LET words == <<Trunc(u, 64), Trunc(LShrBits(u, 64), 64)>>
    IN LLVMConstIntOfArbitraryPrecision(t, 2, words)

const_u8(i) == const_uint(IntTy(8), ZExt(i, 64))

\* the overflow check off by one: 2^bits itself passes
const_usize_off_by_one(bits, i) ==
    IF bits < 64 /\ LtBits(ShlBits(BitAt(0, 64), bits), i)
    THEN Panic
    ELSE const_uint(IntTy(bits), i)

const_usize(bits, i) ==
    IF bits < 64 /\ ~LtBits(i, ShlBits(BitAt(0, 64), bits))
    THEN Panic
    ELSE const_uint(IntTy(bits), i)

struct_in_context(elts, packed) == LLVMConstStructInContext(elts, packed)

const_struct(elts, packed) == struct_in_context(elts, packed)

FAT_PTR_ADDR == 0
FAT_PTR_EXTRA == 1

const_fat_ptr(ptr, meta) ==
    IF FAT_PTR_ADDR # 0 \/ FAT_PTR_EXTRA # 1
    THEN Panic
    ELSE const_struct(<<ptr, meta>>, FALSE)

\* the index cast to c_uint without the assertion that nothing was cut off
const_get_elt_unasserted(v, idx) == LLVMConstExtractValue(v, Trunc(idx, 32))

const_get_elt(v, idx) ==
    IF ZExt(Trunc(idx, 32), 64) # idx
    THEN Panic
    ELSE LLVMConstExtractValue(v, Trunc(idx, 32))

is_const_integral(v) == LLVMIsAConstantInt(v)

\* the limbs recombined in the wrong order
hi_lo_to_u128_swapped(lo, hi) == OrBits(ShlBits(ZExt(lo, 128), 64), ZExt(hi, 128))

hi_lo_to_u128(lo, hi) == OrBits(ShlBits(ZExt(hi, 128), 64), ZExt(lo, 128))

const_to_opt_u128(v, sign_ext) ==
    IF is_const_integral(v)
    THEN LET r == LLVMRustConstInt128Get(v, sign_ext)
             hi == r.high
             lo == r.low
         IN IF r.success THEN Some(hi_lo_to_u128(lo, hi)) ELSE None
    ELSE None

(***************************************************************************)
(* The state after CodegenCx::new, and the inputs the calls are tried on.  *)
(***************************************************************************)
NoCall == [op |-> "none", out |-> None]

\* the caller has made the call it was about to make
Made == [op |-> "none"]

InitContext ==
    /\ const_cstr_cache = [x \in {} |-> None]
    /\ globals = <<>>
    /\ local_gen_sym_counter = 0
    /\ cstr_log = {}
    /\ diags = <<>>
    /\ funclets = <<>>
    /\ funclet_pads = <<>>
    /\ status = "running"
    /\ ret = NoCall

\* u64 values around the pointer widths, the c_uint width and the ends
Words64 ==
    {FromNat(n, 64) : n \in 0..(MaxElts + 1)}
        \cup {BitAt(k, 64) : k \in {16, 32, 63}}
        \cup {ZExt(Ones(k), 64) : k \in {16, 32, 64}}
        \cup {OrBits(BitAt(32, 64), BitAt(0, 64))}

\* limbs of the u128 values
Limbs == {Zeros(64), BitAt(0, 64), BitAt(63, 64), Ones(64), ZExt(Ones(32), 64)}

U128s == {[i \in 1..128 |-> IF i <= 64 THEN lo[i] ELSE hi[i - 64]] : lo \in Limbs, hi \in Limbs}

IntTypes == {IntTy(w) : w \in IntWidths}

\* the scalars the aggregates are built from
Elems == {const_u8(FromNat(n, 8)) : n \in 1..(MaxElts + 1)}

EltLists == UNION {[1..n -> Elems] : n \in 0..MaxElts}

Failed(r) == r.vk \in {"Panic", "Fatal"}

\* what a call that unwinds leaves of the compilation
StatusAfter(r) == IF r.vk = "Panic" THEN "panicked" ELSE IF r.vk = "Fatal" THEN "fatal" ELSE "running"

(***************************************************************************)
(* Calls of the constructors and extractors.                              *)
(***************************************************************************)
cx_unchanged == UNCHANGED <<pointer_bits, const_cstr_cache, globals, local_gen_sym_counter,
                            cstr_log, lang_items, diags, funclets, funclet_pads>>

Call_const_undef ==
    /\ status = "running"
    /\ pending.op = "const_undef"
    /\ ret' = [op |-> "const_undef", t |-> pending.t, out |-> const_undef(pending.t)]
    /\ pending' = Made
    /\ UNCHANGED status
    /\ cx_unchanged

Call_const_uint_big ==
    /\ status = "running"
    /\ pending.op = "const_uint_big"
    /\ ret' = [op |-> "const_uint_big", t |-> pending.t, u |-> pending.u,
               out |-> const_uint_big(pending.t, pending.u)]
    /\ pending' = Made
    /\ UNCHANGED status
    /\ cx_unchanged

Call_const_to_opt_u128 ==
    /\ status = "running"
    /\ ret.op \in {"const_uint_big", "const_undef", "const_usize"}
    /\ \E sign_ext \in BOOLEAN :
         ret' = [op |-> "const_to_opt_u128", arg |-> ret, sign_ext |-> sign_ext,
                 out |-> const_to_opt_u128(ret.out, sign_ext)]
    /\ UNCHANGED <<status, pending>>
    /\ cx_unchanged

Call_const_usize ==
    /\ status = "running"
    /\ pending.op = "const_usize"
    /\ LET r == const_usize(pointer_bits, pending.i)
       IN /\ ret' = [op |-> "const_usize", i |-> pending.i, out |-> r]
          /\ status' = StatusAfter(r)
    /\ pending' = Made
    /\ cx_unchanged

Call_const_struct ==
    /\ status = "running"
    /\ pending.op = "const_struct"
    /\ ret' = [op |-> "const_struct", elts |-> pending.elts, packed |-> pending.packed,
               out |-> const_struct(pending.elts, pending.packed)]
    /\ pending' = Made
    /\ UNCHANGED status
    /\ cx_unchanged

Call_const_get_elt ==
    /\ status = "running"
    /\ ret.op = "const_struct"
    /\ \E idx \in Words64 :
         LET r == const_get_elt(ret.out, idx)
         IN /\ ret' = [op |-> "const_get_elt", arg |-> ret, idx |-> idx, out |-> r]
            /\ status' = StatusAfter(r)
    /\ UNCHANGED pending
    /\ cx_unchanged

\* the constructor calls tried
ConstCalls ==
    {[op |-> "const_undef", t |-> t] : t \in IntTypes \cup {DoubleTy}}
        \cup {[op |-> "const_uint_big", t |-> t, u |-> u] : t \in IntTypes, u \in U128s}
        \cup {[op |-> "const_usize", i |-> i] : i \in Words64}
        \cup {[op |-> "const_struct", elts |-> elts, packed |-> packed] :
                 elts \in EltLists, packed \in BOOLEAN}

InitConst ==
    /\ InitContext
    /\ pointer_bits \in PointerWidths
    /\ lang_items = <<>>
    /\ pending \in ConstCalls

NextConst ==
    \/ Call_const_undef
    \/ Call_const_uint_big
    \/ Call_const_to_opt_u128
    \/ Call_const_usize
    \/ Call_const_struct
    \/ Call_const_get_elt

SpecConst == InitConst /\ [][NextConst]_vars

(***************************************************************************)
(* Properties of the constructors and extractors (SpecConst).             *)
(***************************************************************************)
\* C2: a u128 built by const_uint_big at the 128-bit type and read back by
\* const_to_opt_u128 without sign extension is Some of the same u128: the low
\* and the high limb are not swapped.
RoundTripU128 ==
    (/\ ret.op = "const_to_opt_u128"
     /\ ret.arg.op = "const_uint_big"
     /\ ret.arg.t = IntTy(128)
     /\ ~ret.sign_ext)
        => ret.out = Some(ret.arg.u)

RoundTripU128Witness ==
    /\ ret.op = "const_to_opt_u128"
    /\ ret.arg.op = "const_uint_big"
    /\ ret.arg.t = IntTy(128)
    /\ ~ret.sign_ext
    /\ Trunc(ret.arg.u, 64) = BitAt(0, 64)
    /\ Trunc(LShrBits(ret.arg.u, 64), 64) = BitAt(63, 64)
    /\ ret.out = Some(ret.arg.u)

\* i >= 2^b for a pointer width b below 64
UsizeOverflows(b, i) == b < 64 /\ \E k \in (b + 1)..64 : i[k] = 1

\* C3: const_usize(i) panics, producing no constant, exactly when the pointer
\* width b is below 64 and i has a bit set at position b or above (i >= 2^b);
\* otherwise it returns the constant of the pointer-width type whose value is i.
ConstUsizeFailsExactlyOnOverflow ==
    ret.op = "const_usize" =>
        IF UsizeOverflows(pointer_bits, ret.i)
        THEN ret.out = Panic /\ status = "panicked"
        ELSE /\ ret.out = ConstantInt(IntTy(pointer_bits), Trunc(ret.i, pointer_bits))
             /\ ZExt(ret.out.bits, 64) = ret.i
             /\ status = "running"

ConstUsizeWitness ==
    /\ pointer_bits = 32
    /\ ret.op = "const_usize"
    /\ ret.i = BitAt(32, 64)
    /\ ret.out = Panic
    /\ status = "panicked"

\* C5: const_get_elt(aggregate, index) returns the index-th element when index
\* is below the element count, and panics, returning nothing, when index is at
\* or beyond the count or does not fit the 32-bit index of the backend.
ConstGetEltInRangeOrFails ==
    ret.op = "const_get_elt" =>
        LET elts == ret.arg.elts
            hits == {k \in 0..(Len(elts) - 1) : ret.idx = FromNat(k, 64)}
        IN IF hits # {}
           THEN /\ \A k \in hits : ret.out = elts[k + 1]
                /\ status = "running"
           ELSE ret.out = Panic /\ status = "panicked"

ConstGetEltWitness ==
    /\ ret.op = "const_get_elt"
    /\ Len(ret.arg.elts) = 2
    /\ ret.arg.elts[1] # ret.arg.elts[2]
    /\ ret.idx = FromNat(2, 64)
    /\ ret.out = Panic

(***************************************************************************)
(* The byte-string cache: const_cstr and const_str_slice.  A context cx is *)
(* the part of CodegenCx these read and write; each operator returns the   *)
(* context it leaves and what it returns.                                  *)
(***************************************************************************)
\* the contents tried: "", "a", "b", "ab"
Contents == {[i \in 1..0 |-> 97], [i \in 1..1 |-> 97], [i \in 1..1 |-> 98],
             [i \in 1..2 |-> 96 + i]}

Context == [cache |-> const_cstr_cache, globals |-> globals,
            counter |-> local_gen_sym_counter, log |-> cstr_log]

\* CodegenCx::generate_local_symbol_name(prefix): "<prefix>.<counter>"
generate_local_symbol_name(cx, prefix) ==
    [cx |-> [cx EXCEPT !.counter = cx.counter + 1], name |-> <<prefix, cx.counter>>]

\* declare::define_global(cx, name, ty): None when the name is already defined
define_global(cx, name, ty) ==
    IF \E k \in 1..Len(cx.globals) : cx.globals[k].name = name
    THEN [cx |-> cx, out |-> None]
    ELSE [cx |-> [cx EXCEPT !.globals =
                     Append(cx.globals, [name |-> name, ty |-> ty, initializer |-> None,
                                         constant |-> FALSE, linkage |-> "External"])],
          out |-> Some(GlobalVariable(Len(cx.globals) + 1))]

\* LLVMSetInitializer, LLVMSetGlobalConstant(g, True), LLVMRustSetLinkage(g, Internal)
SetUpConstant(cx, g, sc) ==
    [cx EXCEPT !.globals[g.idx] =
        [@ EXCEPT !.initializer = sc, !.constant = TRUE, !.linkage = "Internal"]]

\* const_cstr_cache.borrow_mut().insert(s, g)
CacheInsert(cx, s, g) ==
    [cx EXCEPT !.cache = [x \in DOMAIN cx.cache \cup {s} |-> IF x = s THEN g ELSE cx.cache[x]]]

\* the record of a handle const_cstr has returned for content s
Returned(cx, s, g) == [cx EXCEPT !.log = cx.log \cup {[s |-> s, g |-> g]}]

\* const_cstr that defines a global on every call and never reads the cache
const_cstr_uncached(cx, s, null_terminated) ==
    LET sc == LLVMConstStringInContext(s, ~null_terminated)
        sym == generate_local_symbol_name(cx, "str")
        def == define_global(sym.cx, sym.name, val_ty(sc))
    IN IF def.out = None
       THEN [cx |-> def.cx, out |-> Panic]
       ELSE LET g == def.out.val
            IN [cx |-> Returned(CacheInsert(SetUpConstant(def.cx, g, sc), s, g), s, g),
                out |-> g]

const_cstr(cx, s, null_terminated) ==
    IF s \in DOMAIN cx.cache
    THEN [cx |-> Returned(cx, s, cx.cache[s]), out |-> cx.cache[s]]
    ELSE LET sc == LLVMConstStringInContext(s, ~null_terminated)
             sym == generate_local_symbol_name(cx, "str")
             def == define_global(sym.cx, sym.name, val_ty(sc))
         IN IF def.out = None
            THEN [cx |-> def.cx, out |-> Panic]
            ELSE LET g == def.out.val
                 IN [cx |-> Returned(CacheInsert(SetUpConstant(def.cx, g, sc), s, g), s, g),
                     out |-> g]

\* consts::ptrcast(val, ty)
ptrcast(v, t) == BitCast(v, t)

const_str_slice(cx, bits, s) ==
    LET len == Len(s)
        r == const_cstr(cx, s, FALSE)
    IN IF Failed(r.out)
       THEN r
       ELSE LET cs == ptrcast(r.out, PtrTy(StrTy))
                meta == const_usize(bits, FromNat(len, 64))
            IN [cx |-> r.cx, out |-> IF Failed(meta) THEN meta ELSE const_fat_ptr(cs, meta)]

\* the context a call leaves becomes the state
Leaves(cx) ==
    /\ const_cstr_cache' = cx.cache
    /\ globals' = cx.globals
    /\ local_gen_sym_counter' = cx.counter
    /\ cstr_log' = cx.log

Call_const_cstr ==
    /\ status = "running"
    /\ \E s \in Contents, null_terminated \in BOOLEAN :
         /\ s \in DOMAIN const_cstr_cache \/ local_gen_sym_counter < MaxSyms
         /\ LET r == const_cstr(Context, s, null_terminated)
            IN /\ Leaves(r.cx)
               /\ ret' = [op |-> "const_cstr", s |-> s, null_terminated |-> null_terminated,
                          out |-> r.out]
               /\ status' = StatusAfter(r.out)
    /\ UNCHANGED <<pointer_bits, lang_items, diags, funclets, funclet_pads, pending>>

Call_const_str_slice ==
    /\ status = "running"
    /\ \E s \in Contents :
         /\ s \in DOMAIN const_cstr_cache \/ local_gen_sym_counter < MaxSyms
         /\ LET r == const_str_slice(Context, pointer_bits, s)
            IN /\ Leaves(r.cx)
               /\ ret' = [op |-> "const_str_slice", s |-> s, out |-> r.out]
               /\ status' = StatusAfter(r.out)
    /\ UNCHANGED <<pointer_bits, lang_items, diags, funclets, funclet_pads, pending>>

InitCstr ==
    /\ InitContext
    /\ pointer_bits \in PointerWidths
    /\ lang_items = <<>>
    /\ pending = Made

NextCstr ==
    \/ Call_const_cstr
    \/ Call_const_str_slice

SpecCstr == InitCstr /\ [][NextCstr]_vars

\* C1: whatever calls of const_cstr were made so far (those of const_str_slice
\* included), two calls with equal content returned the same global, two with
\* different content returned different globals, and the module holds exactly
\* one byte-string global per distinct content requested.
OneGlobalPerContent ==
    /\ \A p \in cstr_log, q \in cstr_log : (p.s = q.s) <=> (p.g = q.g)
    /\ Len(globals) = Cardinality({p.s : p \in cstr_log})

OneGlobalPerContentWitness ==
    /\ Cardinality(cstr_log) = 2
    /\ Len(globals) = 2
    /\ ret.op = "const_cstr"
    /\ ret.out = GlobalVariable(1)
    /\ local_gen_sym_counter = 2

\* the bytes of the initializer of the global g
InitializerOf(g) == globals[g.idx].initializer.bytes

\* C10: the global const_cstr(content, null_terminated) returns holds
\* len(content)+1 bytes ending in a zero byte when null_terminated is true and
\* exactly len(content) bytes when it is false; the pointer of the fat pointer
\* const_str_slice(content) returns refers to a global of exactly len(content)
\* bytes, the value of its length field.
InitializerMatchesFlag ==
    /\ ret.op = "const_cstr" =>
         InitializerOf(ret.out) = (IF ret.null_terminated THEN Append(ret.s, 0) ELSE ret.s)
    /\ ret.op = "const_str_slice" =>
         /\ Len(InitializerOf(ret.out.elts[1].val)) = Len(ret.s)
         /\ ret.out.elts[2].bits = FromNat(Len(ret.s), pointer_bits)

(***************************************************************************)
(* The builder, as far as the shift emitters use it.  An emitted           *)
(* instruction is a value that records its opcode and operands and, in     *)
(* sem, what LLVM defines it to compute on these operands; a shift by a    *)
(* count that is not below the bit width computes poison.                  *)
(***************************************************************************)
Poison(t) == [vk |-> "Poison", ty |-> t]

Sem(v) == IF v.vk = "Instruction" THEN v.sem ELSE v

Instruction(opcode, operands, sem) ==
    [vk |-> "Instruction", opcode |-> opcode, operands |-> operands, ty |-> sem.ty, sem |-> sem]

InRange(count) == LtBits(count.bits, FromNat(int_width(count.ty), int_width(count.ty)))

\* what and, shl, lshr and ashr compute on two integers of one type
ScalarSem(opcode, a, b) ==
    CASE opcode = "and" -> ConstantInt(a.ty, AndBits(a.bits, b.bits))
      [] ~InRange(b) -> Poison(a.ty)
      [] opcode = "shl" -> ConstantInt(a.ty, ShlBits(a.bits, ToNat(b.bits)))
      [] opcode = "lshr" -> ConstantInt(a.ty, LShrBits(a.bits, ToNat(b.bits)))
      [] opcode = "ashr" -> ConstantInt(a.ty, AShrBits(a.bits, ToNat(b.bits)))

\* the same on integers, or lane by lane on vectors
BinSem(opcode, a, b) ==
    IF a.vk = "ConstantVector"
    THEN ConstantVector(a.ty, [i \in 1..Len(a.lanes) |-> ScalarSem(opcode, a.lanes[i], b.lanes[i])])
    ELSE ScalarSem(opcode, a, b)

ScalarTy(t) == IF type_kind(t) = "Vector" THEN element_type(t) ELSE t

CastBits(opcode, b, w) == IF opcode = "trunc" THEN Trunc(b, w) ELSE ZExt(b, w)

\* what trunc and zext to the type t compute
CastSem(opcode, v, t) ==
    IF v.vk = "ConstantVector"
    THEN ConstantVector(t, [i \in 1..Len(v.lanes) |->
                              ConstantInt(ScalarTy(t),
                                          CastBits(opcode, v.lanes[i].bits, int_width(ScalarTy(t))))])
    ELSE ConstantInt(t, CastBits(opcode, v.bits, int_width(t)))

bx_and(a, b) == Instruction("and", <<a, b>>, BinSem("and", Sem(a), Sem(b)))
bx_shl(a, b) == Instruction("shl", <<a, b>>, BinSem("shl", Sem(a), Sem(b)))
bx_lshr(a, b) == Instruction("lshr", <<a, b>>, BinSem("lshr", Sem(a), Sem(b)))
bx_ashr(a, b) == Instruction("ashr", <<a, b>>, BinSem("ashr", Sem(a), Sem(b)))
bx_trunc(v, t) == Instruction("trunc", <<v>>, CastSem("trunc", Sem(v), t))
bx_zext(v, t) == Instruction("zext", <<v>>, CastSem("zext", Sem(v), t))
bx_vector_splat(n, elt) == ConstantVector(VecTy(val_ty(elt), n), [i \in 1..n |-> elt])

\* base::cast_shift_expr_rhs: the shift count brought to the width of lhs
cast_shift_expr_rhs(lhs, rhs) ==
    LET rhs_sz == int_width(ScalarTy(val_ty(rhs)))
        lhs_sz == int_width(ScalarTy(val_ty(lhs)))
    IN IF lhs_sz < rhs_sz THEN bx_trunc(rhs, val_ty(lhs))
       ELSE IF lhs_sz > rhs_sz THEN bx_zext(rhs, val_ty(lhs))
       ELSE rhs

\* Ty::is_signed
is_signed(t) == t.signed

(***************************************************************************)
(* build_unchecked_lshift, build_unchecked_rshift and the masks.           *)
(***************************************************************************)
RECURSIVE shift_mask_val_zero_extended(_, _, _)
\* the inverted mask built with const_uint: not sign-extended to wide mask types
shift_mask_val_zero_extended(llty, mask_llty, invert) ==
    LET kind == type_kind(llty)
    IN CASE kind = "Integer" ->
              LET val == FromNat(int_width(llty) - 1, 64)
              IN IF invert THEN const_uint(mask_llty, NotBits(val)) ELSE const_uint(mask_llty, val)
         [] kind = "Vector" ->
              LET mask == shift_mask_val_zero_extended(element_type(llty), element_type(mask_llty), invert)
              IN IF Failed(mask) THEN mask ELSE bx_vector_splat(vector_length(mask_llty), mask)
         [] OTHER -> Panic

RECURSIVE shift_mask_val(_, _, _)
shift_mask_val(llty, mask_llty, invert) ==
    LET kind == type_kind(llty)
    IN CASE kind = "Integer" ->
              LET val == FromNat(int_width(llty) - 1, 64)
              IN IF invert THEN const_int(mask_llty, NotBits(val)) ELSE const_uint(mask_llty, val)
         [] kind = "Vector" ->
              LET mask == shift_mask_val(element_type(llty), element_type(mask_llty), invert)
              IN IF Failed(mask) THEN mask ELSE bx_vector_splat(vector_length(mask_llty), mask)
         [] OTHER -> Panic

\* the count masked with the bit width instead of the bit width minus one
shift_mask_rhs_by_width(rhs) ==
    LET rhs_llty == val_ty(rhs)
        w == int_width(ScalarTy(rhs_llty))
        m == const_uint(ScalarTy(rhs_llty), FromNat(w, 64))
    IN bx_and(rhs, IF type_kind(rhs_llty) = "Vector"
                   THEN bx_vector_splat(vector_length(rhs_llty), m) ELSE m)

shift_mask_rhs(rhs) ==
    LET rhs_llty == val_ty(rhs)
        mask == shift_mask_val(rhs_llty, rhs_llty, FALSE)
    IN IF Failed(mask) THEN mask ELSE bx_and(rhs, mask)

build_unchecked_lshift(lhs, rhs) ==
    LET rhs1 == cast_shift_expr_rhs(lhs, rhs)
        rhs2 == shift_mask_rhs(rhs1)
    IN IF Failed(rhs2) THEN rhs2 ELSE bx_shl(lhs, rhs2)

\* the two branches exchanged
build_unchecked_rshift_swapped(lhs_t, lhs, rhs) ==
    LET rhs1 == cast_shift_expr_rhs(lhs, rhs)
        rhs2 == shift_mask_rhs(rhs1)
    IN IF Failed(rhs2) THEN rhs2
       ELSE IF is_signed(lhs_t) THEN bx_lshr(lhs, rhs2) ELSE bx_ashr(lhs, rhs2)

build_unchecked_rshift(lhs_t, lhs, rhs) ==
    LET rhs1 == cast_shift_expr_rhs(lhs, rhs)
        rhs2 == shift_mask_rhs(rhs1)
        signed == is_signed(lhs_t)
    IN IF Failed(rhs2) THEN rhs2
       ELSE IF signed THEN bx_ashr(lhs, rhs2) ELSE bx_lshr(lhs, rhs2)

(***************************************************************************)
(* Calls of the shift emitters.                                            *)
(***************************************************************************)
\* the integer types of the source language: iN and uN
RustInts == [signed : BOOLEAN, bits : IntWidths]

\* the widths of the lanes of the vector operands tried
LaneWidths == {8, 32}

LhsBits(w) == {BitAt(0, w), FromNat(5, w), OrBits(BitAt(w - 1, w), BitAt(0, w)), Ones(w)}

CountBits(w) == {FromNat(n, w) : n \in {0, 1, 7, 8, 9, 31, 127, 128, 255}}
                    \cup {Ones(w), BitAt(w - 1, w)}

LaneCountBits(w) == {FromNat(9, w), Ones(w)}

Scalars(w, bitss) == {ConstantInt(IntTy(w), b) : b \in bitss}

Vectors(w, n, bitss) ==
    {ConstantVector(VecTy(IntTy(w), n), lanes) : lanes \in [1..n -> Scalars(w, bitss)]}

\* a type of the shape of n lanes (0: a scalar) over the scalar type t
Shaped(t, n) == IF n = 0 THEN t ELSE VecTy(t, n)

\* the arguments the shift emitters are tried on: integers and SIMD vectors
ScalarShiftArgs ==
    UNION {{[lhs_t |-> lhs_t, rhs_t |-> rhs_t, lhs |-> lhs, rhs |-> rhs] :
               lhs \in Scalars(lhs_t.bits, LhsBits(lhs_t.bits)),
               rhs \in Scalars(rhs_t.bits, CountBits(rhs_t.bits))} :
           lhs_t \in RustInts, rhs_t \in RustInts}

SimdShiftArgs ==
    UNION {{[lhs_t |-> lhs_t, rhs_t |-> rhs_t, lhs |-> lhs, rhs |-> rhs] :
               lhs \in Vectors(lhs_t.bits, n, {BitAt(0, lhs_t.bits), Ones(lhs_t.bits)}),
               rhs \in Vectors(rhs_t.bits, n, LaneCountBits(rhs_t.bits))} :
           lhs_t \in [signed : BOOLEAN, bits : LaneWidths],
           rhs_t \in [signed : BOOLEAN, bits : LaneWidths], n \in 1..MaxLanes}

ShiftCalls ==
    {[op |-> op, simd |-> FALSE, args |-> a] :
        op \in {"build_unchecked_lshift", "build_unchecked_rshift"}, a \in ScalarShiftArgs}
        \cup {[op |-> op, simd |-> TRUE, args |-> a] :
                 op \in {"build_unchecked_lshift", "build_unchecked_rshift"}, a \in SimdShiftArgs}
        \cup {[op |-> "shift_mask_val", llty |-> Shaped(t, n), mask_llty |-> Shaped(mask_t, n),
               invert |-> invert] :
                 t \in IntTypes \cup {DoubleTy}, mask_t \in IntTypes, n \in 0..MaxLanes,
                 invert \in BOOLEAN}

Call_build_unchecked_lshift ==
    /\ status = "running"
    /\ pending.op = "build_unchecked_lshift"
    /\ LET a == pending.args
           r == build_unchecked_lshift(a.lhs, a.rhs)
       IN /\ ret' = [op |-> "build_unchecked_lshift", simd |-> pending.simd,
                     lhs_t |-> a.lhs_t, rhs_t |-> a.rhs_t, lhs |-> a.lhs, rhs |-> a.rhs, out |-> r]
          /\ status' = StatusAfter(r)
    /\ pending' = Made
    /\ cx_unchanged

Call_build_unchecked_rshift ==
    /\ status = "running"
    /\ pending.op = "build_unchecked_rshift"
    /\ LET a == pending.args
           r == build_unchecked_rshift(a.lhs_t, a.lhs, a.rhs)
       IN /\ ret' = [op |-> "build_unchecked_rshift", simd |-> pending.simd,
                     lhs_t |-> a.lhs_t, rhs_t |-> a.rhs_t, lhs |-> a.lhs, rhs |-> a.rhs, out |-> r]
          /\ status' = StatusAfter(r)
    /\ pending' = Made
    /\ cx_unchanged

Call_shift_mask_val ==
    /\ status = "running"
    /\ pending.op = "shift_mask_val"
    /\ LET r == shift_mask_val(pending.llty, pending.mask_llty, pending.invert)
       IN /\ ret' = [op |-> "shift_mask_val", llty |-> pending.llty,
                     mask_llty |-> pending.mask_llty, invert |-> pending.invert, out |-> r]
          /\ status' = StatusAfter(r)
    /\ pending' = Made
    /\ cx_unchanged

\* the shift emitters read nothing of the target's pointer width
InitShift ==
    /\ InitContext
    /\ pointer_bits = 64
    /\ lang_items = <<>>
    /\ pending \in ShiftCalls

NextShift ==
    \/ Call_build_unchecked_lshift
    \/ Call_build_unchecked_rshift
    \/ Call_shift_mask_val

SpecShift == InitShift /\ [][NextShift]_vars

\* the count c reduced modulo the power of two w, as a vector of width w: the
\* bits of c below log2(w)
ModWidth(c, w) == [i \in 1..w |-> IF i <= Log2(w) /\ i <= Len(c) THEN c[i] ELSE 0]

\* the count the emitted shift uses
EmittedCount == Sem(ret.out.operands[2])

\* C4: build_unchecked_lshift on an integer operand of width w with count c
\* emits a shl whose count is c AND (w-1) = c mod w, which is below w, and whose
\* result is lhs shifted left by c mod w; on 8 bits a count of 255 acts as 7.
LshiftCountMasked ==
    (ret.op = "build_unchecked_lshift" /\ ~ret.simd) =>
        LET w == ret.lhs_t.bits
            k == ToNat(ModWidth(ret.rhs.bits, w))
        IN /\ ret.out.opcode = "shl"
           /\ ret.out.operands[1] = ret.lhs
           /\ EmittedCount = ConstantInt(IntTy(w), ModWidth(ret.rhs.bits, w))
           /\ k < w
           /\ Sem(ret.out) = ConstantInt(IntTy(w), [i \in 1..w |-> IF i > k THEN ret.lhs.bits[i - k] ELSE 0])
           /\ (w = 8 /\ ret.rhs_t.bits <= 16) =>
                ToNat(Sem(ret.out).bits) = (ToNat(ret.lhs.bits) * Pow2(ToNat(ret.rhs.bits) % 8)) % 256

LshiftCountMaskedWitness ==
    /\ ret.op = "build_unchecked_lshift"
    /\ ret.lhs_t.bits = 8
    /\ ret.rhs.bits = FromNat(255, 8)
    /\ ret.lhs.bits = FromNat(5, 8)
    /\ EmittedCount.bits = FromNat(7, 8)
    /\ Sem(ret.out).bits = FromNat(128, 8)

\* C9: build_unchecked_rshift masks the count as the left shift does and emits
\* ashr exactly when the logical type of the shifted operand is signed, lshr
\* otherwise, whatever the signedness of the count; build_unchecked_lshift emits
\* shl for signed and unsigned operands alike.
RshiftBySignOfLhs ==
    /\ (ret.op = "build_unchecked_rshift" /\ ~ret.simd) =>
         LET w == ret.lhs_t.bits
             k == ToNat(ModWidth(ret.rhs.bits, w))
         IN /\ ret.out.opcode = (IF ret.lhs_t.signed THEN "ashr" ELSE "lshr")
            /\ ret.out.operands[1] = ret.lhs
            /\ EmittedCount = ConstantInt(IntTy(w), ModWidth(ret.rhs.bits, w))
            /\ Sem(ret.out) = ConstantInt(IntTy(w),
                 [i \in 1..w |-> IF i + k <= w THEN ret.lhs.bits[i + k]
                                 ELSE IF ret.lhs_t.signed THEN ret.lhs.bits[w] ELSE 0])
    /\ ret.op = "build_unchecked_lshift" => ret.out.opcode = "shl"

RshiftBySignOfLhsWitness ==
    /\ ret.op = "build_unchecked_rshift"
    /\ ret.lhs_t = [signed |-> TRUE, bits |-> 8]
    /\ ret.rhs_t = [signed |-> FALSE, bits |-> 32]
    /\ ret.lhs.bits = Ones(8)
    /\ ret.rhs.bits = FromNat(9, 32)
    /\ ret.out.opcode = "ashr"
    /\ Sem(ret.out).bits = Ones(8)

\* the mask of an integer lane type in an integer mask type; none for other kinds
ScalarMask(t, mask_t, invert) ==
    IF type_kind(t) = "Integer"
    THEN ConstantInt(mask_t, IF invert THEN NotBits(FromNat(int_width(t) - 1, int_width(mask_t)))
                             ELSE FromNat(int_width(t) - 1, int_width(mask_t)))
    ELSE Panic

\* C6: shift_mask_val on an integer type of width w gives, in the mask type of
\* width m, w-1, or its complement within m bits when inverted; on a vector
\* type the mask of the lane type in every lane of the mask vector; on any
\* other kind of type it reports a bug and returns no mask.
ShiftMaskValue ==
    ret.op = "shift_mask_val" =>
        LET lane == ScalarMask(ScalarTy(ret.llty), ScalarTy(ret.mask_llty), ret.invert)
        IN IF lane = Panic
           THEN ret.out = Panic /\ status = "panicked"
           ELSE /\ status = "running"
                /\ IF type_kind(ret.llty) = "Vector"
                   THEN /\ ret.out.ty = ret.mask_llty
                        /\ Len(ret.out.lanes) = vector_length(ret.mask_llty)
                        /\ \A i \in 1..Len(ret.out.lanes) : ret.out.lanes[i] = lane
                   ELSE ret.out = lane

ShiftMaskValueWitness ==
    /\ ret.op = "shift_mask_val"
    /\ ret.llty = IntTy(32)
    /\ ret.mask_llty = IntTy(128)
    /\ ret.invert
    /\ ret.out.bits = NotBits(FromNat(31, 128))

(***************************************************************************)
(* Funclet and OperandBundleDef.                                           *)
(***************************************************************************)
OperandBundleDef_new(name, val) == [name |-> name, val |-> val]

\* the bundle named after the field instead of "funclet"
Funclet_new_misnamed(cleanuppad) ==
    [cleanuppad |-> cleanuppad, operand |-> OperandBundleDef_new("cleanuppad", cleanuppad)]

Funclet_new(cleanuppad) ==
    [cleanuppad |-> cleanuppad, operand |-> OperandBundleDef_new("funclet", cleanuppad)]

Funclet_cleanuppad(self) == self.cleanuppad

Funclet_bundle(self) == self.operand

\* the cleanuppad instructions of the function being built
Pads == {[vk |-> "Instruction", opcode |-> "cleanuppad", id |-> k] : k \in 1..MaxPads}

Call_Funclet_new ==
    /\ status = "running"
    /\ Len(funclets) < MaxFunclets
    /\ \E pad \in Pads :
         /\ funclets' = Append(funclets, Funclet_new(pad))
         /\ funclet_pads' = Append(funclet_pads, pad)
         /\ ret' = [op |-> "Funclet::new", pad |-> pad, out |-> Funclet_new(pad)]
    /\ UNCHANGED <<pointer_bits, const_cstr_cache, globals, local_gen_sym_counter, cstr_log,
                   lang_items, diags, status, pending>>

Call_Funclet_cleanuppad ==
    /\ status = "running"
    /\ \E self \in DOMAIN funclets :
         ret' = [op |-> "cleanuppad", self |-> self, out |-> Funclet_cleanuppad(funclets[self])]
    /\ UNCHANGED <<status, pending>>
    /\ cx_unchanged

Call_Funclet_bundle ==
    /\ status = "running"
    /\ \E self \in DOMAIN funclets :
         ret' = [op |-> "bundle", self |-> self, out |-> Funclet_bundle(funclets[self])]
    /\ UNCHANGED <<status, pending>>
    /\ cx_unchanged

InitFunclet ==
    /\ InitContext
    /\ pointer_bits = 64
    /\ lang_items = <<>>
    /\ pending = Made

NextFunclet ==
    \/ Call_Funclet_new
    \/ Call_Funclet_cleanuppad
    \/ Call_Funclet_bundle

SpecFunclet == InitFunclet /\ [][NextFunclet]_vars

\* C7: a funclet made by Funclet::new(pad) has a bundle named "funclet" whose
\* payload is pad and a cleanuppad that is pad, and every later call of
\* bundle() and cleanuppad() on it returns these same values.
FuncletCarriesItsPad ==
    /\ \A i \in DOMAIN funclets :
         /\ Funclet_bundle(funclets[i]) = [name |-> "funclet", val |-> funclet_pads[i]]
         /\ Funclet_cleanuppad(funclets[i]) = funclet_pads[i]
    /\ ret.op = "Funclet::new" =>
         /\ ret.out.operand = [name |-> "funclet", val |-> ret.pad]
         /\ ret.out.cleanuppad = ret.pad
    /\ ret.op = "bundle" => ret.out = [name |-> "funclet", val |-> funclet_pads[ret.self]]
    /\ ret.op = "cleanuppad" => ret.out = funclet_pads[ret.self]

FuncletCarriesItsPadWitness ==
    /\ Len(funclets) = 2
    /\ funclet_pads[1] # funclet_pads[2]
    /\ ret.op = "bundle"
    /\ ret.self = 1
    /\ ret.out = [name |-> "funclet", val |-> funclet_pads[1]]

(***************************************************************************)
(* langcall.                                                               *)
(***************************************************************************)
LangItems == {"PanicFnLangItem", "PanicBoundsCheckFnLangItem", "BoxFreeFnLangItem"}

DefIds == {[vk |-> "DefId", index |-> d] : d \in 1..MaxDefIds}

Spans == {[lo |-> 10, hi |-> 20], [lo |-> 30, hi |-> 31]}

\* LanguageItems::require(it): the DefId, or the error message
require(items, li) ==
    IF items[li].vk = "Some"
    THEN [vk |-> "Ok", val |-> items[li].val]
    ELSE [vk |-> "Err", err |-> <<"requires lang_item", li>>]

\* Session::span_fatal(sp, msg): emits and raises FatalError
span_fatal(ds, sp, msg) == Append(ds, [level |-> "Fatal", span |-> Some(sp), msg |-> msg])

\* Session::fatal(msg): emits and raises FatalError
fatal(ds, msg) == Append(ds, [level |-> "Fatal", span |-> None, msg |-> msg])

\* the span dropped: every failure reported without a location
langcall_unlocated(tcx, span, msg, li) ==
    LET r == require(tcx.lang_items, li)
    IN IF r.vk = "Ok"
       THEN [diags |-> tcx.diags, out |-> r.val]
       ELSE [diags |-> fatal(tcx.diags, <<msg, r.err>>), out |-> Fatal]

langcall(tcx, span, msg, li) ==
    LET r == require(tcx.lang_items, li)
    IN IF r.vk = "Ok"
       THEN [diags |-> tcx.diags, out |-> r.val]
       ELSE LET msg1 == <<msg, r.err>>
            IN [diags |-> IF span.vk = "Some" THEN span_fatal(tcx.diags, span.val, msg1)
                          ELSE fatal(tcx.diags, msg1),
                out |-> Fatal]

Call_langcall ==
    /\ status = "running"
    /\ \E span \in {None} \cup {Some(sp) : sp \in Spans}, li \in LangItems,
          msg \in {"", "boxed value"} :
         LET r == langcall([lang_items |-> lang_items, diags |-> diags], span, msg, li)
         IN /\ ret' = [op |-> "langcall", span |-> span, msg |-> msg, li |-> li, out |-> r.out]
            /\ diags' = r.diags
            /\ status' = StatusAfter(r.out)
    /\ UNCHANGED <<pointer_bits, const_cstr_cache, globals, local_gen_sym_counter, cstr_log,
                   lang_items, funclets, funclet_pads, pending>>

InitLang ==
    /\ InitContext
    /\ pointer_bits = 64
    /\ lang_items \in [LangItems -> {None} \cup {Some(d) : d \in DefIds}]
    /\ pending = Made

NextLang == Call_langcall

SpecLang == InitLang /\ [][NextLang]_vars

\* C8: langcall returns the item's DefId and emits nothing when the item is in
\* the metadata; when it is absent it returns no identifier and emits exactly
\* one fatal diagnostic, at the span when one is given and without location
\* otherwise, and the compilation is over: no further call is made.
LangcallResolvesOrIsFatal ==
    /\ ret.op = "langcall" =>
         IF lang_items[ret.li] # None
         THEN /\ Some(ret.out) = lang_items[ret.li]
              /\ ret.out \in DefIds
              /\ diags = <<>>
              /\ status = "running"
         ELSE /\ ret.out = Fatal
              /\ Len(diags) = 1
              /\ diags[1].level = "Fatal"
              /\ diags[1].span = ret.span
              /\ status = "fatal"
    /\ status = "fatal" => ~ENABLED NextLang

LangcallWitness ==
    /\ ret.op = "langcall"
    /\ ret.span = Some([lo |-> 10, hi |-> 20])
    /\ ret.out = Fatal
    /\ Len(diags) = 1
    /\ diags[1].span = Some([lo |-> 10, hi |-> 20])
    /\ status = "fatal"

====
